---- MODULE Spec2Model ----
(***************************************************************************)
(* A model of estafette-extension-docker (src/main.go): one process run    *)
(* that reads its flags and environment, validates them and drives the     *)
(* container engine through external commands for the actions build, push  *)
(* and tag.                                                                *)
(*                                                                         *)
(* A Go string is modelled as a sequence of characters, each character a   *)
(* one-character TLA+ string, so that strings.Split, strings.Join,         *)
(* fmt.Sprintf and the regular expression of tidyBuildVersionAsTag are     *)
(* computed as the code computes them.                                     *)
(***************************************************************************)
EXTENDS Integers, Sequences, FiniteSets, TLC

VARIABLES
    action,                     \* flag --action
    repositories,               \* flag --repositories (raw, comma separated)
    container,                  \* flag --container
    tags,                       \* flag --tags (raw, comma separated)
    path,                       \* flag --path
    dockerfile,                 \* flag --dockerfile
    copy,                       \* flag --copy (raw, comma separated)
    args,                       \* flag --args (raw, comma separated)
    appLabel,                   \* environment ESTAFETTE_LABEL_APP
    buildVersion,               \* environment ESTAFETTE_BUILD_VERSION
    environ,                    \* the rest of the environment, name -> value
    credentials,                \* the parsed registry credential records
    repositoriesSlice,          \* main's local repositoriesSlice
    tagsSlice,                  \* main's local tagsSlice
    copySlice,                  \* main's local copySlice
    argsSlice,                  \* main's local argsSlice
    estafetteBuildVersionAsTag, \* main's local estafetteBuildVersionAsTag
    retidied,                   \* tidyBuildVersionAsTag of estafetteBuildVersionAsTag
    resolveImage,               \* the argument of getCredentialsForContainer called alone
    resolved,                   \* its result, <<record>> or <<>> for nil
    pc,                         \* the position of the run in main
    i,                          \* index of the current repository (or copy entry), from 1
    j,                          \* index of the current explicit tag, from 1
    trace                       \* every external command executed so far, in order

flags == <<action, repositories, container, tags, path, dockerfile, copy, args>>
inputs == <<appLabel, buildVersion, environ, credentials>>
locals == <<repositoriesSlice, tagsSlice, copySlice, argsSlice, estafetteBuildVersionAsTag>>
harness == <<retidied, resolveImage, resolved>>
vars == <<flags, inputs, locals, harness, pc, i, j, trace>>

(***************************************************************************)
(* Bounds of the model.                                                    *)
(***************************************************************************)
MaxRepos == 2       \* longest repositories list
MaxTags == 1        \* longest tags list
MaxLen == 3         \* longest build version given to tidyBuildVersionAsTag alone

(***************************************************************************)
(* String literals of the source.                                          *)
(***************************************************************************)
Empty == <<>>
Dot == <<".">>
Dash == <<"-">>
Slash == <<"/">>
Colon == <<":">>
Comma == <<",">>
Equals == <<"=">>
Lmkdir == <<"m","k","d","i","r">>
Lcp == <<"c","p">>
Ldocker == <<"d","o","c","k","e","r">>
Lp == <<"-","p">>
Lr == <<"-","r">>
Lbuild == <<"b","u","i","l","d">>
Lpush == <<"p","u","s","h">>
Ltag == <<"t","a","g">>
Lpull == <<"p","u","l","l">>
Llogin == <<"l","o","g","i","n">>
Lusername == <<"-","-","u","s","e","r","n","a","m","e">>
Lpassword == <<"-","-","p","a","s","s","w","o","r","d">>
LtagFlag == <<"-","-","t","a","g">>
LbuildArg == <<"-","-","b","u","i","l","d","-","a","r","g">>
Lfile == <<"-","-","f","i","l","e">>
LDockerfile == <<"D","o","c","k","e","r","f","i","l","e">>
WorkDir == <<"/","e","s","t","a","f","e","t","t","e","-","w","o","r","k">>

(***************************************************************************)
(* strings.Split(s, sep) and strings.Join(parts, sep) for a one-character  *)
(* separator.                                                              *)
(***************************************************************************)
RECURSIVE SplitFrom(_, _, _)
SplitFrom(s, sep, cur) ==
    IF s = <<>> THEN <<cur>>
    ELSE IF <<Head(s)>> = sep THEN <<cur>> \o SplitFrom(Tail(s), sep, <<>>)
    ELSE SplitFrom(Tail(s), sep, Append(cur, Head(s)))

Split(s, sep) == SplitFrom(s, sep, <<>>)

RECURSIVE Join(_, _)
Join(parts, sep) ==
    IF parts = <<>> THEN <<>>
    ELSE IF Len(parts) = 1 THEN parts[1]
    ELSE parts[1] \o sep \o Join(Tail(parts), sep)

\* main: "if *x != "" { xSlice = strings.Split(*x, ",") }", a nil slice otherwise
SplitList(s) == IF s # Empty THEN Split(s, Comma) ELSE <<>>

\* fmt.Sprintf("%v/%v:%v", r, c, t)
ContainerPath(r, c, t) == r \o Slash \o c \o Colon \o t

(***************************************************************************)
(* tidyBuildVersionAsTag: regexp [^a-zA-Z0-9_.\-]+ replaced by "-".        *)
(***************************************************************************)
LowerLetters ==
    {"a","b","c","d","e","f","g","h","i","j","k","l","m",
     "n","o","p","q","r","s","t","u","v","w","x","y","z"}
UpperLetters ==
    {"A","B","C","D","E","F","G","H","I","J","K","L","M",
     "N","O","P","Q","R","S","T","U","V","W","X","Y","Z"}
Digits == {"0","1","2","3","4","5","6","7","8","9"}

\* the characters the class [^a-zA-Z0-9_.\-] does not match
TagChar(c) == c \in LowerLetters \cup UpperLetters \cup Digits \cup {"_", ".", "-"}

\* ReplaceAllString: left to right, every leftmost-longest match of the
\* class repeated one or more times is replaced by repl; inMatch says that
\* the character before s was consumed by the current match.
RECURSIVE ReplaceAllString(_, _, _)
ReplaceAllString(s, repl, inMatch) ==
    IF s = <<>> THEN <<>>
    ELSE IF TagChar(Head(s)) THEN <<Head(s)>> \o ReplaceAllString(Tail(s), repl, FALSE)
    ELSE IF inMatch THEN ReplaceAllString(Tail(s), repl, TRUE)
    ELSE repl \o ReplaceAllString(Tail(s), repl, TRUE)

\* a replacement that stops after the first match
RECURSIVE ReplaceFirstString(_, _, _, _)
ReplaceFirstString(s, repl, inMatch, replaced) ==
    IF s = <<>> THEN <<>>
    ELSE IF TagChar(Head(s)) THEN <<Head(s)>> \o ReplaceFirstString(Tail(s), repl, FALSE, replaced)
    ELSE IF inMatch THEN ReplaceFirstString(Tail(s), repl, TRUE, replaced)
    ELSE IF replaced THEN <<Head(s)>> \o ReplaceFirstString(Tail(s), repl, FALSE, TRUE)
    ELSE repl \o ReplaceFirstString(Tail(s), repl, TRUE, TRUE)

tidyFirstMatchOnly(s) == ReplaceFirstString(s, Dash, FALSE, FALSE)

\* the class without its "+": every character outside the class gets its own dash
tidyEachCharacter(s) == [k \in 1..Len(s) |-> IF TagChar(s[k]) THEN s[k] ELSE "-"]

tidyBuildVersionAsTag(s) == ReplaceAllString(s, Dash, FALSE)

(***************************************************************************)
(* Credentials and login.                                                  *)
(***************************************************************************)
\* the part of an image path before its last "/"
containerRepo(containerImage) ==
    LET containerImageSlice == Split(containerImage, Slash)
    IN  Join(SubSeq(containerImageSlice, 1, Len(containerImageSlice) - 1), Slash)

\* the last matching record instead of the first
RECURSIVE getCredentialsForContainerLastMatch(_, _)
getCredentialsForContainerLastMatch(creds, containerImage) ==
    IF creds = <<>> THEN <<>>
    ELSE IF containerRepo(containerImage) = creds[Len(creds)].repository
         THEN <<creds[Len(creds)]>>
         ELSE getCredentialsForContainerLastMatch(SubSeq(creds, 1, Len(creds) - 1), containerImage)

\* the first record whose Repository equals containerRepo, as <<record>>;
\* <<>> stands for nil
RECURSIVE getCredentialsForContainer(_, _)
getCredentialsForContainer(creds, containerImage) ==
    IF creds = <<>> THEN <<>>
    ELSE IF containerRepo(containerImage) = Head(creds).repository THEN <<Head(creds)>>
    ELSE getCredentialsForContainer(Tail(creds), containerImage)

\* the argument list loginIfRequired builds for a matched credential
\* the first segment of the repository passed as the host in every login
loginArgsAlwaysHost(credential) ==
    LET repositorySlice == Split(credential.repository, Slash)
    IN  <<Llogin, Lusername, credential.username, Lpassword, credential.password>>
        \o <<repositorySlice[1]>>

loginArgs(credential) ==
    LET repositorySlice == Split(credential.repository, Slash)
    IN  <<Llogin, Lusername, credential.username, Lpassword, credential.password>>
        \o (IF Len(repositorySlice) > 1 THEN <<repositorySlice[1]>> ELSE <<>>)

(***************************************************************************)
(* Running an external command.  A command of the trace records its name,  *)
(* its arguments, the working directory and output streams it was started  *)
(* with, and whether it succeeded.                                         *)
(***************************************************************************)
\* an error that is logged and not fatal
handleErrorContinues(ok, next) == next

\* handleError: log.Fatal terminates the process when err is not nil
handleError(ok, next) == IF ok THEN next ELSE "fatal"

\* runCommand: cmd.Dir = "/estafette-work", Stdout and Stderr inherited
runCommand(command, cargs, ok, next) ==
    /\ trace' = Append(trace, [command |-> command, args |-> cargs,
                               dir |-> WorkDir, inherit |-> TRUE, ok |-> ok])
    /\ pc' = handleError(ok, next)

\* exec.Command(command, args...).Run() followed by handleError: the
\* process's own working directory, no output streams attached
execCommand(command, cargs, ok, next) ==
    /\ trace' = Append(trace, [command |-> command, args |-> cargs,
                               dir |-> Empty, inherit |-> FALSE, ok |-> ok])
    /\ pc' = handleError(ok, next)

\* a login with the first credential of the list, matching or not
loginIfRequiredAnyCredential(creds, containerImage, ok, next) ==
    IF creds # <<>>
    THEN execCommand(Ldocker, loginArgs(creds[1]), ok, next)
    ELSE /\ trace' = trace
         /\ pc' = next

loginIfRequired(creds, containerImage, ok, next) ==
    LET credential == getCredentialsForContainer(creds, containerImage)
    IN  IF credential # <<>>
        THEN execCommand(Ldocker, loginArgs(credential[1]), ok, next)
        ELSE /\ trace' = trace
             /\ pc' = next

(***************************************************************************)
(* main, up to the switch on the action.                                   *)
(***************************************************************************)
\* validateRepositories: TRUE when it returns, FALSE when it calls log.Fatal
validateRepositories(repos) == repos # Empty

\* a switch whose default case falls into the build
SwitchActionDefaultBuild(a) ==
    IF a = Lpush THEN "push_for_r"
    ELSE IF a = Ltag THEN "tag_login_source"
    ELSE "build_mkdir"

\* the case of "switch *action" that is taken
SwitchAction(a) ==
    IF a = Lbuild THEN "build_mkdir"
    ELSE IF a = Lpush THEN "push_for_r"
    ELSE IF a = Ltag THEN "tag_login_source"
    ELSE "fatal"

Main ==
    /\ pc = "start"
    /\ container' = IF container = Empty /\ appLabel # Empty THEN appLabel ELSE container
    /\ IF validateRepositories(repositories)
       THEN /\ repositoriesSlice' = SplitList(repositories)
            /\ tagsSlice' = SplitList(tags)
            /\ copySlice' = SplitList(copy)
            /\ argsSlice' = SplitList(args)
            /\ estafetteBuildVersionAsTag' = tidyBuildVersionAsTag(buildVersion)
            /\ pc' = SwitchAction(action)
       ELSE /\ pc' = "fatal"
            /\ UNCHANGED locals
    /\ i' = 1
    /\ j' = 1
    /\ UNCHANGED <<harness, action, repositories, tags, path, dockerfile, copy, args, inputs, trace>>

\* sourceContainerPath of the push and tag cases
sourceContainerPath ==
    ContainerPath(repositoriesSlice[1], container, estafetteBuildVersionAsTag)

\* targetContainerPath for the default tag, and for the explicit tag t
targetDefault(r) == ContainerPath(r, container, estafetteBuildVersionAsTag)
targetExtra(r, t) == ContainerPath(r, container, t)

(***************************************************************************)
(* case "build"                                                            *)
(***************************************************************************)
contains(values, value) == \E k \in 1..Len(values) : values[k] = value

\* the dockerfile added to the copy list whatever the path is
BuildMkdirAlwaysAddsDockerfile ==
    /\ pc = "build_mkdir"
    /\ \E ok \in BOOLEAN :
        /\ runCommand(Lmkdir, <<Lp, path>>, ok, "build_for_c")
        /\ copySlice' = IF ok /\ ~contains(copySlice, dockerfile)
                        THEN Append(copySlice, dockerfile)
                        ELSE copySlice
    /\ i' = 1
    /\ UNCHANGED <<harness, flags, inputs, repositoriesSlice, tagsSlice, argsSlice,
                   estafetteBuildVersionAsTag, j>>

BuildMkdir ==
    /\ pc = "build_mkdir"
    /\ \E ok \in BOOLEAN :
        /\ runCommand(Lmkdir, <<Lp, path>>, ok, "build_for_c")
        /\ copySlice' = IF ok /\ path # Dot /\ ~contains(copySlice, dockerfile)
                        THEN Append(copySlice, dockerfile)
                        ELSE copySlice
    /\ i' = 1
    /\ UNCHANGED <<harness, flags, inputs, repositoriesSlice, tagsSlice, argsSlice,
                   estafetteBuildVersionAsTag, j>>

BuildForCopy ==
    /\ pc = "build_for_c"
    /\ pc' = IF i <= Len(copySlice) THEN "build_cp" ELSE "build_login"
    /\ UNCHANGED <<harness, flags, inputs, locals, i, j, trace>>

BuildCp ==
    /\ pc = "build_cp"
    /\ \E ok \in BOOLEAN : runCommand(Lcp, <<Lr, copySlice[i], path>>, ok, "build_for_c")
    /\ i' = i + 1
    /\ UNCHANGED <<harness, flags, inputs, locals, j>>

BuildLogin ==
    /\ pc = "build_login"
    /\ \E ok \in BOOLEAN :
        loginIfRequired(credentials, targetDefault(repositoriesSlice[1]), ok, "build_docker")
    /\ UNCHANGED <<harness, flags, inputs, locals, i, j>>

\* the --tag arguments: for each repository the default tag, then each explicit tag
RECURSIVE TagArgsOfTags(_, _)
TagArgsOfTags(r, ts) ==
    IF ts = <<>> THEN <<>>
    ELSE <<LtagFlag, targetExtra(r, Head(ts))>> \o TagArgsOfTags(r, Tail(ts))

\* the explicit tags only: the default tag of each repository left out
RECURSIVE TagArgsWithoutDefault(_)
TagArgsWithoutDefault(rs) ==
    IF rs = <<>> THEN <<>>
    ELSE TagArgsOfTags(Head(rs), tagsSlice) \o TagArgsWithoutDefault(Tail(rs))

\* the explicit tags of each repository put before its default tag
RECURSIVE TagArgsTagsFirst(_)
TagArgsTagsFirst(rs) ==
    IF rs = <<>> THEN <<>>
    ELSE TagArgsOfTags(Head(rs), tagsSlice) \o <<LtagFlag, targetDefault(Head(rs))>>
         \o TagArgsTagsFirst(Tail(rs))

RECURSIVE TagArgs(_)
TagArgs(rs) ==
    IF rs = <<>> THEN <<>>
    ELSE <<LtagFlag, targetDefault(Head(rs))>> \o TagArgsOfTags(Head(rs), tagsSlice)
         \o TagArgs(Tail(rs))

\* os.Getenv
Getenv(name) == IF name \in DOMAIN environ THEN environ[name] ELSE Empty

RECURSIVE BuildArgArgs(_)
BuildArgArgs(as) ==
    IF as = <<>> THEN <<>>
    ELSE <<LbuildArg, Head(as) \o Equals \o Getenv(Head(as))>> \o BuildArgArgs(Tail(as))

buildArgs ==
    <<Lbuild>> \o TagArgs(repositoriesSlice) \o BuildArgArgs(argsSlice)
    \o <<Lfile, path \o Slash \o dockerfile, path>>

BuildDocker ==
    /\ pc = "build_docker"
    /\ \E ok \in BOOLEAN : runCommand(Ldocker, buildArgs, ok, "done")
    /\ UNCHANGED <<harness, flags, inputs, locals, i, j>>

(***************************************************************************)
(* case "push"                                                             *)
(***************************************************************************)
\* the guard "if i > 0" taken as "if i >= 0": the first repository is tagged too
PushForRepoTagsFirst ==
    /\ pc = "push_for_r"
    /\ pc' = IF i > Len(repositoriesSlice) THEN "done" ELSE "push_tag_default"
    /\ UNCHANGED <<harness, flags, inputs, locals, i, j, trace>>

\* "for i, r := range repositoriesSlice" and "if i > 0" (i counts from 1 here)
PushForRepo ==
    /\ pc = "push_for_r"
    /\ pc' = IF i > Len(repositoriesSlice) THEN "done"
             ELSE IF i > 1 THEN "push_tag_default"
             ELSE "push_login_default"
    /\ UNCHANGED <<harness, flags, inputs, locals, i, j, trace>>

\* the error of the default-tag docker tag not handed to handleError
PushTagDefaultUnchecked ==
    /\ pc = "push_tag_default"
    /\ \E ok \in BOOLEAN :
        /\ trace' = Append(trace, [command |-> Ldocker,
                                   args |-> <<Ltag, sourceContainerPath,
                                              targetDefault(repositoriesSlice[i])>>,
                                   dir |-> Empty, inherit |-> FALSE, ok |-> ok])
        /\ pc' = "push_login_default"
    /\ UNCHANGED <<harness, flags, inputs, locals, i, j>>

PushTagDefault ==
    /\ pc = "push_tag_default"
    /\ \E ok \in BOOLEAN :
        execCommand(Ldocker, <<Ltag, sourceContainerPath, targetDefault(repositoriesSlice[i])>>,
                    ok, "push_login_default")
    /\ UNCHANGED <<harness, flags, inputs, locals, i, j>>

PushLoginDefault ==
    /\ pc = "push_login_default"
    /\ \E ok \in BOOLEAN :
        loginIfRequired(credentials, targetDefault(repositoriesSlice[i]), ok, "push_push_default")
    /\ UNCHANGED <<harness, flags, inputs, locals, i, j>>

\* the loop over the tags left out: the next repository follows the push of
\* the default tag
PushPushDefaultSkipsTags ==
    /\ pc = "push_push_default"
    /\ \E ok \in BOOLEAN :
        runCommand(Ldocker, <<Lpush, targetDefault(repositoriesSlice[i])>>, ok, "push_for_r")
    /\ i' = i + 1
    /\ j' = 1
    /\ UNCHANGED <<harness, flags, inputs, locals>>

PushPushDefault ==
    /\ pc = "push_push_default"
    /\ \E ok \in BOOLEAN :
        runCommand(Ldocker, <<Lpush, targetDefault(repositoriesSlice[i])>>, ok, "push_for_t")
    /\ j' = 1
    /\ UNCHANGED <<harness, flags, inputs, locals, i>>

\* the additional tags of the first repository pushed without tagging them
PushForTagSkipsFirstTag ==
    /\ pc = "push_for_t"
    /\ IF j > Len(tagsSlice)
       THEN /\ pc' = "push_for_r"
            /\ i' = i + 1
       ELSE /\ pc' = IF i = 1 THEN "push_login_extra" ELSE "push_tag_extra"
            /\ i' = i
    /\ UNCHANGED <<harness, flags, inputs, locals, j, trace>>

\* "for _, t := range tagsSlice"
PushForTag ==
    /\ pc = "push_for_t"
    /\ IF j > Len(tagsSlice)
       THEN /\ pc' = "push_for_r"
            /\ i' = i + 1
       ELSE /\ pc' = "push_tag_extra"
            /\ i' = i
    /\ UNCHANGED <<harness, flags, inputs, locals, j, trace>>

\* the additional tag taken from the repository's own default-tag image
\* instead of sourceContainerPath
PushTagExtraFromTarget ==
    /\ pc = "push_tag_extra"
    /\ \E ok \in BOOLEAN :
        runCommand(Ldocker,
                   <<Ltag, targetDefault(repositoriesSlice[i]),
                     targetExtra(repositoriesSlice[i], tagsSlice[j])>>,
                   ok, "push_login_extra")
    /\ UNCHANGED <<harness, flags, inputs, locals, i, j>>

PushTagExtra ==
    /\ pc = "push_tag_extra"
    /\ \E ok \in BOOLEAN :
        runCommand(Ldocker,
                   <<Ltag, sourceContainerPath, targetExtra(repositoriesSlice[i], tagsSlice[j])>>,
                   ok, "push_login_extra")
    /\ UNCHANGED <<harness, flags, inputs, locals, i, j>>

PushLoginExtra ==
    /\ pc = "push_login_extra"
    /\ \E ok \in BOOLEAN :
        loginIfRequired(credentials, targetExtra(repositoriesSlice[i], tagsSlice[j]),
                        ok, "push_push_extra")
    /\ UNCHANGED <<harness, flags, inputs, locals, i, j>>

PushPushExtra ==
    /\ pc = "push_push_extra"
    /\ \E ok \in BOOLEAN :
        runCommand(Ldocker, <<Lpush, targetExtra(repositoriesSlice[i], tagsSlice[j])>>,
                   ok, "push_for_t")
    /\ j' = j + 1
    /\ UNCHANGED <<harness, flags, inputs, locals, i>>

(***************************************************************************)
(* case "tag"                                                              *)
(***************************************************************************)
TagLoginSource ==
    /\ pc = "tag_login_source"
    /\ \E ok \in BOOLEAN : loginIfRequired(credentials, sourceContainerPath, ok, "tag_pull")
    /\ UNCHANGED <<harness, flags, inputs, locals, i, j>>

\* the pull run without handleError: the fan-out starts whatever the pull did
TagPullIgnoresFailure ==
    /\ pc = "tag_pull"
    /\ \E ok \in BOOLEAN :
        /\ trace' = Append(trace, [command |-> Ldocker, args |-> <<Lpull, sourceContainerPath>>,
                                   dir |-> WorkDir, inherit |-> TRUE, ok |-> ok])
        /\ pc' = "tag_for_r"
    /\ UNCHANGED <<harness, flags, inputs, locals, i, j>>

TagPull ==
    /\ pc = "tag_pull"
    /\ \E ok \in BOOLEAN : runCommand(Ldocker, <<Lpull, sourceContainerPath>>, ok, "tag_for_r")
    /\ UNCHANGED <<harness, flags, inputs, locals, i, j>>

\* the guard "if i > 0" left out: the first repository's default tag is
\* tagged and pushed like the others
TagForRepoTagsFirst ==
    /\ pc = "tag_for_r"
    /\ pc' = IF i > Len(repositoriesSlice) THEN "done" ELSE "tag_tag_default"
    /\ UNCHANGED <<harness, flags, inputs, locals, i, j, trace>>

\* "for i, r := range repositoriesSlice" and "if i > 0" (i counts from 1 here)
TagForRepo ==
    /\ pc = "tag_for_r"
    /\ IF i > Len(repositoriesSlice)
       THEN /\ pc' = "done"
            /\ j' = j
       ELSE IF i > 1
       THEN /\ pc' = "tag_tag_default"
            /\ j' = j
       ELSE /\ pc' = "tag_for_t"
            /\ j' = 1
    /\ UNCHANGED <<harness, flags, inputs, locals, i, trace>>

TagTagDefault ==
    /\ pc = "tag_tag_default"
    /\ \E ok \in BOOLEAN :
        runCommand(Ldocker, <<Ltag, sourceContainerPath, targetDefault(repositoriesSlice[i])>>,
                   ok, "tag_login_default")
    /\ UNCHANGED <<harness, flags, inputs, locals, i, j>>

TagLoginDefault ==
    /\ pc = "tag_login_default"
    /\ \E ok \in BOOLEAN :
        loginIfRequired(credentials, targetDefault(repositoriesSlice[i]), ok, "tag_push_default")
    /\ UNCHANGED <<harness, flags, inputs, locals, i, j>>

TagPushDefault ==
    /\ pc = "tag_push_default"
    /\ \E ok \in BOOLEAN :
        runCommand(Ldocker, <<Lpush, targetDefault(repositoriesSlice[i])>>, ok, "tag_for_t")
    /\ j' = 1
    /\ UNCHANGED <<harness, flags, inputs, locals, i>>

\* "for _, t := range tagsSlice"
TagForTag ==
    /\ pc = "tag_for_t"
    /\ IF j > Len(tagsSlice)
       THEN /\ pc' = "tag_for_r"
            /\ i' = i + 1
       ELSE /\ pc' = "tag_tag_extra"
            /\ i' = i
    /\ UNCHANGED <<harness, flags, inputs, locals, j, trace>>

TagTagExtra ==
    /\ pc = "tag_tag_extra"
    /\ \E ok \in BOOLEAN :
        runCommand(Ldocker,
                   <<Ltag, sourceContainerPath, targetExtra(repositoriesSlice[i], tagsSlice[j])>>,
                   ok, "tag_login_extra")
    /\ UNCHANGED <<harness, flags, inputs, locals, i, j>>

TagLoginExtra ==
    /\ pc = "tag_login_extra"
    /\ \E ok \in BOOLEAN :
        loginIfRequired(credentials, targetExtra(repositoriesSlice[i], tagsSlice[j]),
                        ok, "tag_push_extra")
    /\ UNCHANGED <<harness, flags, inputs, locals, i, j>>

TagPushExtra ==
    /\ pc = "tag_push_extra"
    /\ \E ok \in BOOLEAN :
        runCommand(Ldocker, <<Lpush, targetExtra(repositoriesSlice[i], tagsSlice[j])>>,
                   ok, "tag_for_t")
    /\ j' = j + 1
    /\ UNCHANGED <<harness, flags, inputs, locals, i>>

(***************************************************************************)
(* The inputs of a run.                                                    *)
(***************************************************************************)
\* all sequences over S of length at most n
RECURSIVE SeqsUpTo(_, _)
SeqsUpTo(S, n) ==
    IF n = 0 THEN {<<>>}
    ELSE LET shorter == SeqsUpTo(S, n - 1)
         IN  shorter \cup {Append(q, x) : q \in shorter, x \in S}

Sa == <<"a">>
Sb == <<"b">>
Shb == <<"h","/","b">>
Sh == <<"h">>
Sdev == <<"d","e","v">>
Slt == <<"l","/","t">>
Sapp == <<"a","p","p">>
Sl == <<"l">>
S10 == <<"1",".","0">>
Sxy == <<"x"," ","y">>
Sdeploy == <<"d","e","p","l","o","y">>
Sf == <<"f">>
So == <<"o">>
SX == <<"X">>
SY == <<"Y">>

RepoNames == {Sa, Sb, Shb}
TagNames == {Sdev, Slt}
RepositoriesInputs == {Join(l, Comma) : l \in SeqsUpTo(RepoNames, MaxRepos)}
TagsInputs == {Join(l, Comma) : l \in SeqsUpTo(TagNames, MaxTags)}
ActionInputs == {Lbuild, Lpush, Ltag, Sdeploy}

Cred(r, u, p) == [repository |-> r, username |-> u, password |-> p]
CredentialsInputs ==
    { <<>>,
      <<Cred(Sa, <<"u">>, <<"p">>), Cred(Sa, <<"v">>, <<"q">>)>>,
      <<Cred(Sh, <<"u">>, <<"p">>), Cred(Shb, <<"v">>, <<"q">>)>>,
      <<Cred(Shb, <<"u">>, <<"p">>), Cred(Sb, <<"v">>, <<"q">>), Cred(Sa, <<"w">>, <<"r">>)>> }

\* --container and ESTAFETTE_LABEL_APP
ContainerInputs == { <<Sapp, Sl>>, <<Empty, Sl>> }
BuildVersionInputs == {S10, Sxy}

\* --path, --copy and --args of a build
BuildInputs ==
    { <<Dot, Empty, Empty>>,
      <<Dot, Sf, SX>>,
      <<So, Empty, Join(<<SX, SY>>, Comma)>>,
      <<So, Join(<<LDockerfile, Sf>>, Comma), Empty>>,
      <<So, Sf, SY>> }

Environment == [x \in {SX} |-> <<"1">>]

\* --path, --copy and --args are read by the build case alone: they take
\* their other values in the runs that build or that name no known action
Init ==
    /\ action \in ActionInputs
    /\ repositories \in RepositoriesInputs
    /\ tags \in TagsInputs
    /\ \E c \in ContainerInputs : container = c[1] /\ appLabel = c[2]
    /\ \E b \in (IF action \in {Lbuild, Sdeploy} THEN BuildInputs ELSE {<<Dot, Empty, Empty>>}) :
        path = b[1] /\ copy = b[2] /\ args = b[3]
    /\ dockerfile = LDockerfile
    /\ buildVersion \in BuildVersionInputs
    /\ environ = Environment
    /\ credentials \in CredentialsInputs
    /\ repositoriesSlice = <<>>
    /\ tagsSlice = <<>>
    /\ copySlice = <<>>
    /\ argsSlice = <<>>
    /\ estafetteBuildVersionAsTag = Empty
    /\ retidied = Empty
    /\ resolveImage = Empty
    /\ resolved = <<>>
    /\ pc = "start"
    /\ i = 1
    /\ j = 1
    /\ trace = <<>>

Next ==
    \/ Main
    \/ BuildMkdir \/ BuildForCopy \/ BuildCp \/ BuildLogin \/ BuildDocker
    \/ PushForRepo \/ PushTagDefault \/ PushLoginDefault \/ PushPushDefault
    \/ PushForTag \/ PushTagExtra \/ PushLoginExtra \/ PushPushExtra
    \/ TagLoginSource \/ TagPull \/ TagForRepo \/ TagTagDefault \/ TagLoginDefault
    \/ TagPushDefault \/ TagForTag \/ TagTagExtra \/ TagLoginExtra \/ TagPushExtra

Spec == Init /\ [][Next]_vars

\* every external command returns (cmd.Run() blocks until the command has
\* ended) and the run is a single sequential goroutine: a step that can be
\* taken is eventually taken
FairSpec == Spec /\ WF_vars(Next)

(***************************************************************************)
(* tidyBuildVersionAsTag on its own: the function applied to a build       *)
(* version, and applied again to its own result.                           *)
(***************************************************************************)
TidyAlphabet == {"a", "Z", "1", "_", ".", "-", "/", " "}
S123rc1 == <<"1",".","2",".","3","-","r","c",".","1">>
SfeatureIn == <<"f","e","a","t","u","r","e","/","f","o","o"," ","b","a","r">>
SfeatureOut == <<"f","e","a","t","u","r","e","-","f","o","o","-","b","a","r">>
TidyInputs == SeqsUpTo(TidyAlphabet, MaxLen) \cup {S123rc1, SfeatureIn}

InitTidy ==
    /\ action = Empty
    /\ repositories = Empty
    /\ tags = Empty
    /\ container = Empty
    /\ appLabel = Empty
    /\ path = Dot
    /\ copy = Empty
    /\ args = Empty
    /\ dockerfile = LDockerfile
    /\ buildVersion \in TidyInputs
    /\ environ = Environment
    /\ credentials = <<>>
    /\ repositoriesSlice = <<>>
    /\ tagsSlice = <<>>
    /\ copySlice = <<>>
    /\ argsSlice = <<>>
    /\ estafetteBuildVersionAsTag = Empty
    /\ retidied = Empty
    /\ resolveImage = Empty
    /\ resolved = <<>>
    /\ pc = "tidy"
    /\ i = 1
    /\ j = 1
    /\ trace = <<>>

Tidy ==
    /\ pc = "tidy"
    /\ estafetteBuildVersionAsTag' = tidyBuildVersionAsTag(buildVersion)
    /\ pc' = "tidied"
    /\ UNCHANGED <<harness, flags, inputs, repositoriesSlice, tagsSlice, copySlice,
                   argsSlice, i, j, trace>>

TidyAgain ==
    /\ pc = "tidied"
    /\ retidied' = tidyBuildVersionAsTag(estafetteBuildVersionAsTag)
    /\ pc' = "retidied"
    /\ UNCHANGED <<resolveImage, resolved, flags, inputs, locals, i, j, trace>>

NextTidy == Tidy \/ TidyAgain

SpecTidy == InitTidy /\ [][NextTidy]_vars

(***************************************************************************)
(* getCredentialsForContainer on its own: a reference is rendered from a   *)
(* repository, the container and a tag, or an image path is given as it    *)
(* is, and the function is applied to it and a list of credentials.        *)
(***************************************************************************)
MaxCreds == 2       \* longest credentials list given to getCredentialsForContainer alone

Sgapp == <<"g","/","a","p","p">>
ResolveRepositories == {Sa, Sh, Shb}
ResolveContainers == {Sapp, Sgapp}
ResolveTags == {S10, Slt}
ResolveImages == {Empty, Sapp, <<"a","/">>}
ResolveCredentials ==
    {Cred(Sa, <<"u">>, <<"p">>), Cred(Sa, <<"v">>, <<"q">>),
     Cred(Shb, <<"u">>, <<"p">>), Cred(Sh, <<"w">>, <<"r">>)}

InitResolve ==
    /\ action = Empty
    /\ repositories = Empty
    /\ tags = Empty
    /\ appLabel = Empty
    /\ path = Dot
    /\ copy = Empty
    /\ args = Empty
    /\ dockerfile = LDockerfile
    /\ buildVersion = Empty
    /\ environ = Environment
    /\ credentials \in SeqsUpTo(ResolveCredentials, MaxCreds)
    /\ \/ /\ pc = "render"
          /\ \E r \in ResolveRepositories : repositoriesSlice = <<r>>
          /\ \E t \in ResolveTags : tagsSlice = <<t>>
          /\ container \in ResolveContainers
          /\ resolveImage = Empty
       \/ /\ pc = "resolve"
          /\ repositoriesSlice = <<>>
          /\ tagsSlice = <<>>
          /\ container = Empty
          /\ resolveImage \in ResolveImages
    /\ copySlice = <<>>
    /\ argsSlice = <<>>
    /\ estafetteBuildVersionAsTag = Empty
    /\ retidied = Empty
    /\ resolved = <<>>
    /\ i = 1
    /\ j = 1
    /\ trace = <<>>

\* targetContainerPath := fmt.Sprintf("%v/%v:%v", r, *container, t)
Render ==
    /\ pc = "render"
    /\ resolveImage' = targetExtra(repositoriesSlice[1], tagsSlice[1])
    /\ pc' = "resolve"
    /\ UNCHANGED <<retidied, resolved, flags, inputs, locals, i, j, trace>>

Resolve ==
    /\ pc = "resolve"
    /\ resolved' = getCredentialsForContainer(credentials, resolveImage)
    /\ pc' = "resolved"
    /\ UNCHANGED <<retidied, resolveImage, flags, inputs, locals, i, j, trace>>

NextResolve == Render \/ Resolve

SpecResolve == InitResolve /\ [][NextResolve]_vars

(***************************************************************************)
(* Properties of tidyBuildVersionAsTag, checked under SpecTidy.            *)
(***************************************************************************)
\* the characters a tag may contain: ASCII letters, digits, "_", "." and "-"
LegalCharacter(c) ==
    \/ c \in LowerLetters \cup UpperLetters
    \/ c \in Digits
    \/ c \in {"_", ".", "-"}

\* position k of s starts a maximal run of illegal characters
IllegalRunStart(s, k) ==
    /\ ~LegalCharacter(s[k])
    /\ k = 1 \/ LegalCharacter(s[k - 1])

\* the number of legal characters and of starts of illegal runs in s[1..k]:
\* the place in the output of what position k of s contributes
OutPos(s, k) ==
    Cardinality({m \in 1..k : LegalCharacter(s[m]) \/ IllegalRunStart(s, m)})

OnlyLegal(s) == \A k \in 1..Len(s) : LegalCharacter(s[k])

\* C9: sanitize is idempotent: applying tidyBuildVersionAsTag to its own
\* result gives that result again, for every input string.
C9_Idempotent ==
    pc = "retidied" => retidied = estafetteBuildVersionAsTag

\* C9 witness: the function was applied twice to an input that holds legal
\* characters and two illegal runs, and the first application changed it.
C9_Witness ==
    /\ pc = "retidied"
    /\ estafetteBuildVersionAsTag # buildVersion
    /\ Len(buildVersion) >= 3
    /\ Cardinality({k \in 1..Len(buildVersion) : IllegalRunStart(buildVersion, k)}) = 2

\* C10: every maximal run of illegal characters is replaced by exactly one
\* dash and every legal character is kept in place and in case; the output
\* holds only legal characters, a legal string is returned unchanged, the
\* two examples of the specification come out as stated, and the function
\* gives a result for every input, the empty string included.
C10_RunsToSingleDash ==
    /\ pc = "tidy" => ENABLED Tidy
    /\ pc \in {"tidied", "retidied"} =>
        LET s == buildVersion
            o == estafetteBuildVersionAsTag
        IN  /\ Len(o) = OutPos(s, Len(s))
            /\ \A k \in 1..Len(s) :
                /\ LegalCharacter(s[k]) => o[OutPos(s, k)] = s[k]
                /\ IllegalRunStart(s, k) => o[OutPos(s, k)] = "-"
            /\ OnlyLegal(o)
            /\ OnlyLegal(s) => o = s
            /\ s = S123rc1 => o = S123rc1
            /\ s = SfeatureIn => o = SfeatureOut
            /\ s = Empty => o = Empty

\* C10 witness: the function was applied to "feature/foo bar", which holds
\* two illegal runs separated by legal characters.
C10_Witness ==
    /\ pc = "tidied"
    /\ buildVersion = SfeatureIn
    /\ estafetteBuildVersionAsTag = SfeatureOut

(***************************************************************************)
(* Views of the trace.                                                     *)
(***************************************************************************)
IsDocker(c, verb) == c.command = Ldocker /\ c.args[1] = verb

\* the tag and push operations of a trace, in order, each as its argument
\* list: <<"tag", source, target>> or <<"push", reference>>
RECURSIVE TagPushOps(_)
TagPushOps(tr) ==
    IF tr = <<>> THEN <<>>
    ELSE IF IsDocker(Head(tr), Ltag) \/ IsDocker(Head(tr), Lpush)
         THEN <<Head(tr).args>> \o TagPushOps(Tail(tr))
         ELSE TagPushOps(Tail(tr))

TagOps(tr) == SelectSeq(TagPushOps(tr), LAMBDA o : o[1] = Ltag)
PushOps(tr) == SelectSeq(TagPushOps(tr), LAMBDA o : o[1] = Lpush)

IsPrefix(p, q) == Len(p) <= Len(q) /\ SubSeq(q, 1, Len(p)) = p

\* the run got past validation and is in the case of the given action
InCase(a) == action = a /\ pc \notin {"start"} /\ repositories # Empty

(***************************************************************************)
(* Properties of the push action, checked under Spec.                      *)
(***************************************************************************)
Ra10 == <<"a","/","a","p","p",":","1",".","0">>
Radev == <<"a","/","a","p","p",":","d","e","v">>
Rb10 == <<"b","/","a","p","p",":","1",".","0">>
Rbdev == <<"b","/","a","p","p",":","d","e","v">>

\* the run of the example: push, repositories [a, b], tags [dev],
\* container app, default tag 1.0, ended with every command successful
ExampleRunDone ==
    /\ action = Lpush
    /\ pc = "done"
    /\ repositoriesSlice = <<Sa, Sb>>
    /\ tagsSlice = <<Sdev>>
    /\ container = Sapp
    /\ estafetteBuildVersionAsTag = S10

\* C1 as stated: the example run issues tag(a/app:1.0 -> b/app:1.0),
\* push(b/app:1.0), tag(a/app:1.0 -> b/app:dev), push(b/app:dev),
\* push(a/app:1.0), push(a/app:dev), in this order.
C1_AsStated ==
    ExampleRunDone =>
        TagPushOps(trace) = << <<Ltag, Ra10, Rb10>>, <<Lpush, Rb10>>,
                               <<Ltag, Ra10, Rbdev>>, <<Lpush, Rbdev>>,
                               <<Lpush, Ra10>>, <<Lpush, Radev>> >>

\* C1 amended: the example run issues push(a/app:1.0),
\* tag(a/app:1.0 -> a/app:dev), push(a/app:dev), tag(a/app:1.0 -> b/app:1.0),
\* push(b/app:1.0), tag(a/app:1.0 -> b/app:dev), push(b/app:dev), in this order.
C1_ExampleSequence ==
    ExampleRunDone =>
        TagPushOps(trace) = << <<Lpush, Ra10>>,
                               <<Ltag, Ra10, Radev>>, <<Lpush, Radev>>,
                               <<Ltag, Ra10, Rb10>>, <<Lpush, Rb10>>,
                               <<Ltag, Ra10, Rbdev>>, <<Lpush, Rbdev>> >>

\* C1 witness: the example run has ended successfully.
C1_Witness == ExampleRunDone /\ Len(trace) >= 7

\* the operations of one repository's explicit tags: tag, then push, per tag
RECURSIVE PlanOfTags(_, _, _, _)
PlanOfTags(source, r, c, ts) ==
    IF ts = <<>> THEN <<>>
    ELSE << <<Ltag, source, r \o Slash \o c \o Colon \o Head(ts)>>,
            <<Lpush, r \o Slash \o c \o Colon \o Head(ts)>> >>
         \o PlanOfTags(source, r, c, Tail(ts))

\* the concatenation over the repositories rs, the first of them at index idx
\* (from 0): tag of the default tag only for idx > 0, push of the default
\* tag, then the explicit tags
RECURSIVE PushPlanFrom(_, _, _, _, _, _)
PushPlanFrom(source, rs, idx, c, d, ts) ==
    IF rs = <<>> THEN <<>>
    ELSE (IF idx > 0 THEN << <<Ltag, source, Head(rs) \o Slash \o c \o Colon \o d>> >>
          ELSE <<>>)
         \o << <<Lpush, Head(rs) \o Slash \o c \o Colon \o d>> >>
         \o PlanOfTags(source, Head(rs), c, ts)
         \o PushPlanFrom(source, Tail(rs), idx + 1, c, d, ts)

PushPlan(rs, c, d, ts) ==
    PushPlanFrom(rs[1] \o Slash \o c \o Colon \o d, rs, 0, c, d, ts)

FirstRepositoryRefs ==
    {targetDefault(repositoriesSlice[1])}
    \cup {targetExtra(repositoriesSlice[1], tagsSlice[k]) : k \in 1..Len(tagsSlice)}

\* C3 as stated: in a push run no tag operation is issued whose target is a
\* reference of repositories[0].
C3_AsStated ==
    InCase(Lpush) =>
        \A k \in 1..Len(TagOps(trace)) : TagOps(trace)[k][3] \notin FirstRepositoryRefs

\* the tag operations of the explicit tags of the first repository
FirstRepositoryTagOps ==
    [k \in 1..Len(tagsSlice) |->
        <<Ltag, sourceContainerPath, targetExtra(repositoriesSlice[1], tagsSlice[k])>>]

\* C3 amended: in a push run the first repository is pushed under the
\* default tag before any tag operation is issued; while the first
\* repository is processed the only tag operations are those of its explicit
\* tags, one per tag, from the source; a tag operation for the default tag
\* is issued once for every repository after the first, so a successful run
\* has issued (|R| - 1) + |R| * |T| tag operations.
C3_FirstRepository ==
    InCase(Lpush) =>
        /\ PushOps(trace) = <<>> => TagOps(trace) = <<>>
        /\ PushOps(trace) # <<>> => TagPushOps(trace)[1] = <<Lpush, sourceContainerPath>>
        /\ i = 1 => IsPrefix(TagOps(trace), FirstRepositoryTagOps)
        /\ i > 1 => IsPrefix(FirstRepositoryTagOps, TagOps(trace))
        /\ pc = "done" =>
            Len(TagOps(trace)) = (Len(repositoriesSlice) - 1)
                                 + Len(repositoriesSlice) * Len(tagsSlice)

\* C3 witness: the first repository has been pushed under its default tag
\* and an explicit tag of it has been tagged.
C3_Witness ==
    /\ action = Lpush
    /\ i = 1
    /\ pc = "push_login_extra"
    /\ Len(TagOps(trace)) = 1
    /\ TagOps(trace)[1][3] \in FirstRepositoryRefs

(***************************************************************************)
(* Properties of the tag action, checked under Spec.                       *)
(***************************************************************************)
PullPositions == {k \in 1..Len(trace) : IsDocker(trace[k], Lpull)}

\* C4: in a tag run at most one pull is issued, and exactly one in every
\* run that gets past the login of the source; its argument is
\* repositories[0]/container:defaultTag; every tag and push operation comes
\* after the pull has succeeded; after a failed pull no tag or push is issued.
C4_PullFirst ==
    InCase(Ltag) =>
        /\ Cardinality(PullPositions) <= 1
        /\ \A k \in PullPositions :
            trace[k].args = <<Lpull, repositoriesSlice[1] \o Slash \o container
                                     \o Colon \o estafetteBuildVersionAsTag>>
        /\ \A k \in 1..Len(trace) :
            IsDocker(trace[k], Ltag) \/ IsDocker(trace[k], Lpush) =>
                \E m \in PullPositions : m < k /\ trace[m].ok
        /\ (\E m \in PullPositions : ~trace[m].ok) =>
                TagPushOps(trace) = <<>> /\ pc = "fatal"
        /\ pc \notin {"tag_login_source", "tag_pull", "fatal"} => Cardinality(PullPositions) = 1
        /\ pc = "fatal" /\ PullPositions = {} =>
                Len(trace) = 1 /\ IsDocker(trace[1], Llogin) /\ ~trace[1].ok

\* C4 witness: a tag run that pulled the source and went on to push.
C4_Witness ==
    /\ action = Ltag
    /\ pc = "done"
    /\ Cardinality(PullPositions) = 1
    /\ Len(PushOps(trace)) >= 2

(***************************************************************************)
(* The commands a run issues when every command succeeds.                  *)
(***************************************************************************)
\* the login that precedes a push or pull of ref: none without a credential
LoginPlan(ref) ==
    LET credential == getCredentialsForContainer(credentials, ref)
    IN  IF credential = <<>> THEN <<>> ELSE << loginArgs(credential[1]) >>

\* docker operations with the login of each push and pull put before it
RECURSIVE WithLogins(_)
WithLogins(ops) ==
    IF ops = <<>> THEN <<>>
    ELSE (IF Head(ops)[1] \in {Lpush, Lpull} THEN LoginPlan(Head(ops)[2]) ELSE <<>>)
         \o <<Head(ops)>> \o WithLogins(Tail(ops))

\* the fan-out of the tag action: the default tag is tagged and pushed for
\* index > 0 only
RECURSIVE TagPlanFrom(_, _, _, _, _, _)
TagPlanFrom(source, rs, idx, c, d, ts) ==
    IF rs = <<>> THEN <<>>
    ELSE (IF idx > 0 THEN << <<Ltag, source, Head(rs) \o Slash \o c \o Colon \o d>>,
                             <<Lpush, Head(rs) \o Slash \o c \o Colon \o d>> >>
          ELSE <<>>)
         \o PlanOfTags(source, Head(rs), c, ts)
         \o TagPlanFrom(source, Tail(rs), idx + 1, c, d, ts)

TagPlan(rs, c, d, ts) ==
    << <<Lpull, rs[1] \o Slash \o c \o Colon \o d>> >>
    \o TagPlanFrom(rs[1] \o Slash \o c \o Colon \o d, rs, 0, c, d, ts)

\* the files a build copies: the copy list, and the dockerfile after it when
\* the path is not "." and the list does not hold it
CopyPlan ==
    LET listed == SplitList(copy)
    IN  IF path # Dot /\ \A k \in 1..Len(listed) : listed[k] # dockerfile
        THEN Append(listed, dockerfile)
        ELSE listed

Argv(command, ops) == [k \in 1..Len(ops) |-> <<command>> \o ops[k]]

\* every command of the run's action, as command name followed by arguments
FullPlan ==
    IF action = Lbuild
    THEN << <<Lmkdir, Lp, path>> >>
         \o [k \in 1..Len(CopyPlan) |-> <<Lcp, Lr, CopyPlan[k], path>>]
         \o Argv(Ldocker, LoginPlan(repositoriesSlice[1] \o Slash \o container \o Colon
                                    \o estafetteBuildVersionAsTag))
         \o << <<Ldocker>> \o buildArgs >>
    ELSE IF action = Lpush
    THEN Argv(Ldocker, WithLogins(PushPlan(repositoriesSlice, container,
                                           estafetteBuildVersionAsTag, tagsSlice)))
    ELSE Argv(Ldocker, WithLogins(TagPlan(repositoriesSlice, container,
                                         estafetteBuildVersionAsTag, tagsSlice)))

Issued == [k \in 1..Len(trace) |-> <<trace[k].command>> \o trace[k].args]

KnownActions == {Lbuild, Lpush, Ltag}
ConfigurationError == repositories = Empty \/ action \notin KnownActions

(***************************************************************************)
(* Error handling, checked under Spec.                                     *)
(***************************************************************************)
\* C5: fail-fast.  A failed command is the last command of the run and the
\* run is then in the fatal state, where nothing more happens (no further
\* command, no retry); with a valid configuration the fatal state is entered
\* only by a failed command; the run is in the done state only with every
\* command of its plan issued, in order, and successful.
C5_FailFast ==
    /\ \A k \in 1..Len(trace) : ~trace[k].ok => k = Len(trace) /\ pc = "fatal"
    /\ pc \in {"fatal", "done"} => ~ENABLED Next
    /\ pc = "fatal" /\ ~ConfigurationError => trace # <<>> /\ ~trace[Len(trace)].ok
    /\ pc = "done" =>
        /\ \A k \in 1..Len(trace) : trace[k].ok
        /\ Issued = FullPlan

\* C5 witness: a run stopped by a failed command after earlier commands
\* had succeeded.
C5_Witness ==
    /\ pc = "fatal"
    /\ Len(trace) >= 3
    /\ ~trace[Len(trace)].ok
    /\ trace[1].ok

\* C6: a run whose repositories input is empty or whose action is not
\* build, push or tag issues no command and ends in the fatal state,
\* whatever the other inputs and the credentials are.
C6_ConfigurationErrors ==
    ConfigurationError =>
        /\ trace = <<>>
        /\ pc \in {"start", "fatal"}
        /\ pc = "start" => ENABLED Main

\* C6 witness: a run with an unknown action, repositories, tags and
\* credentials has ended in the fatal state.
C6_Witness ==
    /\ pc = "fatal"
    /\ action \notin KnownActions
    /\ repositories # Empty
    /\ tags # Empty
    /\ credentials # <<>>
    /\ trace = <<>>

(***************************************************************************)
(* Credential gating, checked under Spec.                                  *)
(***************************************************************************)
\* the repository portion of a rendered reference: what precedes its last "/"
RepositoryPortion(ref) ==
    LET slashes == {k \in 1..Len(ref) : ref[k] = "/"}
    IN  IF slashes = {} THEN Empty
        ELSE SubSeq(ref, 1, (CHOOSE k \in slashes : \A m \in slashes : m <= k) - 1)

\* the indices of the credential records whose repository is that portion
Matching(ref) ==
    {n \in 1..Len(credentials) : credentials[n].repository = RepositoryPortion(ref)}

FirstMatching(ref) ==
    credentials[CHOOSE n \in Matching(ref) : \A m \in Matching(ref) : n <= m]

UsesCredential(c, record) ==
    /\ IsDocker(c, Llogin)
    /\ c.args[2] = Lusername /\ c.args[3] = record.username
    /\ c.args[4] = Lpassword /\ c.args[5] = record.password

\* C7: in push and tag runs every push and pull of a reference with a
\* matching credential record comes directly after a login with the first
\* such record; every login is for a reference that has a matching record
\* and, once it succeeded, is directly followed by the push or pull of such
\* a reference; no login is issued when there are no credentials.
C7_CredentialGating ==
    InCase(Lpush) \/ InCase(Ltag) =>
        /\ \A k \in 1..Len(trace) :
            IsDocker(trace[k], Lpush) \/ IsDocker(trace[k], Lpull) =>
                IF Matching(trace[k].args[2]) # {}
                THEN k > 1 /\ UsesCredential(trace[k - 1], FirstMatching(trace[k].args[2]))
                ELSE k > 1 => ~IsDocker(trace[k - 1], Llogin)
        /\ \A k \in 1..Len(trace) :
            IsDocker(trace[k], Llogin) =>
                /\ \E n \in 1..Len(credentials) :
                    /\ UsesCredential(trace[k], credentials[n])
                    /\ \E r \in 1..Len(repositoriesSlice) :
                        credentials[n].repository
                            \in {RepositoryPortion(targetDefault(repositoriesSlice[r]))}
                                \cup {RepositoryPortion(targetExtra(repositoriesSlice[r], tagsSlice[t])) :
                                        t \in 1..Len(tagsSlice)}
                /\ k < Len(trace) =>
                    /\ IsDocker(trace[k + 1], Lpush) \/ IsDocker(trace[k + 1], Lpull)
                    /\ Matching(trace[k + 1].args[2]) # {}
        /\ credentials = <<>> => \A k \in 1..Len(trace) : ~IsDocker(trace[k], Llogin)

\* C7 witness: a push was issued directly after a login, with two
\* credential records for its repository in the list.
C7_Witness ==
    /\ action = Lpush
    /\ Len(trace) >= 2
    /\ IsDocker(trace[Len(trace)], Lpush)
    /\ IsDocker(trace[Len(trace) - 1], Llogin)
    /\ Cardinality(Matching(trace[Len(trace)].args[2])) = 2

(***************************************************************************)
(* The build invocation, checked under Spec.                               *)
(***************************************************************************)
BuildPositions == {k \in 1..Len(trace) : IsDocker(trace[k], Lbuild)}

\* the value of an environment variable, empty when it is not set
EnvironmentValue(name) == IF name \in DOMAIN environ THEN environ[name] ELSE Empty

\* C8: a build run invokes the engine's build at most once, and once when
\* it ends successfully; the invocation's arguments hold exactly
\* |repositories| * (1 + |tags|) --tag arguments, the q-th of them for the
\* repository and the tag (default tag first, then the explicit tags) that
\* repository-major list order gives, followed by one
\* --build-arg NAME=VALUE pair per requested build argument in list order,
\* VALUE being the variable's value in the environment.
C8_BuildArguments ==
    InCase(Lbuild) =>
        /\ Cardinality(BuildPositions) <= 1
        /\ pc = "done" => Cardinality(BuildPositions) = 1
        /\ \A k \in BuildPositions :
            LET a == trace[k].args
                perRepo == 1 + Len(tagsSlice)
                n == Len(repositoriesSlice) * perRepo
                m == Len(argsSlice)
            IN  /\ Len(a) = 1 + 2 * n + 2 * m + 3
                /\ Cardinality({q \in 1..Len(a) : a[q] = LtagFlag}) = n
                /\ Cardinality({q \in 1..Len(a) : a[q] = LbuildArg}) = m
                /\ \A q \in 0..(n - 1) :
                    /\ a[2 + 2 * q] = LtagFlag
                    /\ a[3 + 2 * q] =
                        repositoriesSlice[(q \div perRepo) + 1] \o Slash \o container \o Colon
                        \o (IF q % perRepo = 0 THEN estafetteBuildVersionAsTag
                            ELSE tagsSlice[q % perRepo])
                /\ \A q \in 0..(m - 1) :
                    /\ a[2 + 2 * n + 2 * q] = LbuildArg
                    /\ a[3 + 2 * n + 2 * q] =
                        argsSlice[q + 1] \o Equals \o EnvironmentValue(argsSlice[q + 1])

\* C8 witness: a successful build for two repositories, one explicit tag
\* and two build arguments, one of them set in the environment.
C8_Witness ==
    /\ action = Lbuild
    /\ pc = "done"
    /\ Len(repositoriesSlice) = 2
    /\ Len(tagsSlice) = 1
    /\ argsSlice = <<SX, SY>>
    /\ Cardinality(BuildPositions) = 1

(***************************************************************************)
(* Properties of getCredentialsForContainer, checked under SpecResolve.    *)
(* RepositoryPortion, Matching and FirstMatching are those of the          *)
(* credential gating above.                                                *)
(***************************************************************************)
\* C11: resolve returns none when the credential list is empty or no
\* record's repository equals the image's repository portion, and otherwise
\* the record of lowest index whose repository equals that portion exactly.
C11_FirstExactMatch ==
    pc = "resolved" =>
        /\ credentials = <<>> => resolved = <<>>
        /\ IF Matching(resolveImage) = {}
           THEN resolved = <<>>
           ELSE resolved = <<FirstMatching(resolveImage)>>

\* C11 witness: the function returned the first of two records of the
\* image's repository, with a record of a prefix of that repository absent
\* or passed over.
C11_Witness ==
    /\ pc = "resolved"
    /\ Len(credentials) = 2
    /\ credentials[1] # credentials[2]
    /\ Cardinality(Matching(resolveImage)) = 2
    /\ resolved = <<credentials[1]>>

\* C12: for a reference rendered from repository r, the container and a
\* tag, resolve returns a record whose repository is r when the list holds
\* one, and none when it holds none, also for containers and tags that
\* contain "/".
C12_AsStated ==
    pc = "resolved" /\ repositoriesSlice # <<>> =>
        LET r == repositoriesSlice[1]
        IN  IF \E n \in 1..Len(credentials) : credentials[n].repository = r
            THEN resolved # <<>> /\ resolved[1].repository = r
            ELSE resolved = <<>>

(***************************************************************************)
(* The fan-out of the tag action, checked under Spec.                      *)
(***************************************************************************)
PairwiseDistinct(q) == \A m, n \in 1..Len(q) : m # n => q[m] # q[n]

\* distinct repositories, and distinct tags that differ from the default tag
DistinctInputs ==
    /\ PairwiseDistinct(repositoriesSlice)
    /\ PairwiseDistinct(tagsSlice)
    /\ \A n \in 1..Len(tagsSlice) : tagsSlice[n] # estafetteBuildVersionAsTag

\* the tags of a repository: the default tag, then the explicit tags
AllTags == <<estafetteBuildVersionAsTag>> \o tagsSlice

SourceReference ==
    repositoriesSlice[1] \o Slash \o container \o Colon \o estafetteBuildVersionAsTag

PositionsOf(ops, op) == {k \in 1..Len(ops) : ops[k] = op}

\* C13: in a tag run the source reference repositories[0]/container:default
\* is never pushed and never the target of a tag operation; when the run has
\* ended with every command successful, every other combination of a
\* repository and the default or an explicit tag has been tagged from the
\* source once and pushed once after that (for distinct repositories and
\* tags that differ from the default tag), and the run has issued one push
\* fewer than the push action issues on the same inputs.
C13_TagFanOut ==
    InCase(Ltag) =>
        LET ops == TagPushOps(trace)
        IN  /\ DistinctInputs =>
                \A k \in 1..Len(ops) : ops[k][Len(ops[k])] # SourceReference
            /\ pc = "done" /\ DistinctInputs =>
                \A r \in 1..Len(repositoriesSlice), t \in 1..Len(AllTags) :
                    r # 1 \/ t # 1 =>
                        LET ref == repositoriesSlice[r] \o Slash \o container
                                   \o Colon \o AllTags[t]
                            tagged == PositionsOf(ops, <<Ltag, SourceReference, ref>>)
                            pushed == PositionsOf(ops, <<Lpush, ref>>)
                        IN  /\ Cardinality(tagged) = 1
                            /\ Cardinality(pushed) = 1
                            /\ \A m \in tagged, n \in pushed : m < n
            /\ pc = "done" =>
                Len(PushOps(trace)) =
                    Len(SelectSeq(PushPlan(repositoriesSlice, container,
                                           estafetteBuildVersionAsTag, tagsSlice),
                                  LAMBDA o : o[1] = Lpush)) - 1

\* C13 witness: a successful tag run over two different repositories and
\* an explicit tag.
C13_Witness ==
    /\ action = Ltag
    /\ pc = "done"
    /\ DistinctInputs
    /\ Len(repositoriesSlice) = 2
    /\ Len(tagsSlice) = 1
    /\ Len(PushOps(trace)) = 3

(***************************************************************************)
(* The order of a build, checked under Spec.                               *)
(***************************************************************************)
IsCommand(c, name) == c.command = name

CopyPositions == {k \in 1..Len(trace) : IsCommand(trace[k], Lcp)}
LoginPositions == {k \in 1..Len(trace) : IsDocker(trace[k], Llogin)}

\* C14: a build issues the mkdir of the build path, then one copy per entry
\* of the copy list in list order, the dockerfile being the last entry
\* exactly when the path is not "." and the list does not hold it, then at
\* most one login, which is that of repositories[0]/container:defaultTag,
\* then the single build; the build is issued only after every copy has
\* succeeded.
C14_BuildOrder ==
    InCase(Lbuild) =>
        /\ IsPrefix(Issued, FullPlan)
        /\ trace # <<>> => Issued[1] = <<Lmkdir, Lp, path>>
        /\ \A k \in CopyPositions :
            /\ k - 1 \in 1..Len(CopyPlan)
            /\ trace[k].args = <<Lr, CopyPlan[k - 1], path>>
        /\ path = Dot => CopyPlan = SplitList(copy)
        /\ path # Dot =>
            /\ \E n \in 1..Len(CopyPlan) : CopyPlan[n] = dockerfile
            /\ CopyPlan \in {SplitList(copy), Append(SplitList(copy), dockerfile)}
            /\ Cardinality({n \in 1..Len(SplitList(copy)) : SplitList(copy)[n] = dockerfile})
                = Cardinality({n \in 1..Len(CopyPlan) : CopyPlan[n] = dockerfile})
                \/ (/\ \A n \in 1..Len(SplitList(copy)) : SplitList(copy)[n] # dockerfile
                    /\ CopyPlan[Len(CopyPlan)] = dockerfile)
        /\ Cardinality(LoginPositions) <= 1
        /\ \A k \in LoginPositions :
            /\ k = Len(CopyPlan) + 2
            /\ Matching(SourceReference) # {}
            /\ UsesCredential(trace[k], FirstMatching(SourceReference))
        /\ \A k \in BuildPositions :
            /\ k = Len(trace)
            /\ Cardinality(CopyPositions) = Len(CopyPlan)
            /\ \A m \in 1..(k - 1) : trace[m].ok
            /\ Matching(SourceReference) # {} => LoginPositions # {}

\* C14 witness: a successful build in a path other than "." whose copy
\* list did not hold the dockerfile, with a credential for the second
\* repository and none for the first: no login was issued.
C14_Witness ==
    /\ action = Lbuild
    /\ pc = "done"
    /\ path # Dot
    /\ copy = Sf
    /\ Len(repositoriesSlice) = 2
    /\ Matching(SourceReference) = {}
    /\ Matching(targetDefault(repositoriesSlice[2])) # {}
    /\ LoginPositions = {}
    /\ Cardinality(CopyPositions) = 2

(***************************************************************************)
(* How commands are started, and the arguments of a login, checked under   *)
(* Spec.                                                                   *)
(***************************************************************************)
\* C15 as stated: every command of a run, of every kind, was started in the
\* fixed working directory with the output streams of the process.
C15_AsStated ==
    \A k \in 1..Len(trace) : trace[k].dir = WorkDir /\ trace[k].inherit

\* the reference the login at position k of the run is for: the default
\* reference of the first repository in a build, the reference of the push
\* or pull that follows the login otherwise
LoginReference(k) ==
    IF action = Lbuild THEN SourceReference ELSE FullPlan[k + 1][3]

SlashPositions(s) == {n \in 1..Len(s) : s[n] = "/"}

FirstSegment(s) ==
    SubSeq(s, 1, (CHOOSE n \in SlashPositions(s) : \A m \in SlashPositions(s) : n <= m) - 1)

\* C16: every login is issued with the first credential matching its
\* reference; it carries a host argument exactly when the repository of
\* that credential holds a '/', the host being the text before the first
\* '/'; otherwise its arguments are the user name and the password only.
C16_LoginHost ==
    InCase(Lbuild) \/ InCase(Lpush) \/ InCase(Ltag) =>
        \A k \in LoginPositions :
            /\ k < Len(FullPlan)
            /\ Matching(LoginReference(k)) # {}
            /\ LET credential == FirstMatching(LoginReference(k))
                   basic == <<Llogin, Lusername, credential.username,
                              Lpassword, credential.password>>
               IN  IF SlashPositions(credential.repository) # {}
                   THEN trace[k].args = Append(basic, FirstSegment(credential.repository))
                   ELSE trace[k].args = basic

\* C16 witness: a run with a successful login without a host, for a
\* credential of repository a, and a successful login with the host h, for
\* a credential of repository h/b.
C16_Witness ==
    /\ \E k \in LoginPositions :
        /\ trace[k].ok
        /\ FirstMatching(LoginReference(k)).repository = Sa
        /\ Len(trace[k].args) = 5
    /\ \E k \in LoginPositions :
        /\ trace[k].ok
        /\ FirstMatching(LoginReference(k)).repository = Shb
        /\ trace[k].args[6] = Sh

(***************************************************************************)
(* What exists locally when it is pushed, checked under Spec.              *)
(***************************************************************************)
TagPositions == {k \in 1..Len(trace) : IsDocker(trace[k], Ltag)}
PushPositions == {k \in 1..Len(trace) : IsDocker(trace[k], Lpush)}

\* C17: in push and tag runs every reference pushed so far is the source
\* reference repositories[0]/container:defaultTag or was the target of an
\* earlier tag operation that succeeded; every tag operation has the source
\* reference as its source; in a tag run every tag operation comes after the
\* pull of the source reference has succeeded.
C17_LocalExistence ==
    InCase(Lpush) \/ InCase(Ltag) =>
        /\ \A k \in PushPositions :
            IF trace[k].args[2] = SourceReference
            THEN TRUE
            ELSE \E m \in TagPositions :
                    m < k /\ trace[m].ok /\ trace[m].args[3] = trace[k].args[2]
        /\ \A k \in TagPositions : trace[k].args[2] = SourceReference
        /\ action = Ltag =>
            \A k \in TagPositions :
                \E m \in PullPositions :
                    m < k /\ trace[m].ok /\ trace[m].args[2] = SourceReference

\* C17 witness: a successful push run over two distinct repositories and one
\* tag: the source reference was pushed untagged and three other references
\* were pushed, each after its tag operation.
C17_Witness ==
    /\ action = Lpush
    /\ pc = "done"
    /\ DistinctInputs
    /\ Len(repositoriesSlice) = 2
    /\ Len(tagsSlice) = 1
    /\ Cardinality(TagPositions) = 3
    /\ Cardinality(PushPositions) = 4
    /\ \E k \in PushPositions : trace[k].args[2] = SourceReference

(***************************************************************************)
(* The names a build applies and the names a push publishes, checked under *)
(* Spec.                                                                   *)
(***************************************************************************)
\* the values that follow a --tag flag in an argument list, in order
RECURSIVE TagFlagValues(_)
TagFlagValues(as) ==
    IF Len(as) < 2 THEN <<>>
    ELSE IF Head(as) = LtagFlag
         THEN <<as[2]>> \o TagFlagValues(Tail(Tail(as)))
         ELSE TagFlagValues(Tail(as))

\* the references of a sequence of push operations
PushedReferences(ops) == [k \in 1..Len(ops) |-> ops[k][2]]

\* C18: on the same repositories, tags, container and build version, the
\* references pushed by a push run that ended with every command successful
\* are, in order, the references a build passes as --tag arguments, and the
\* --tag arguments of an issued build are, in order, the references such a
\* push run pushes.
C18_BuildPushAgree ==
    /\ InCase(Lpush) /\ pc = "done" =>
        PushedReferences(PushOps(trace)) = TagFlagValues(TagArgs(repositoriesSlice))
    /\ InCase(Lbuild) =>
        \A k \in BuildPositions :
            TagFlagValues(trace[k].args)
                = PushedReferences(SelectSeq(PushPlan(repositoriesSlice, container,
                                                      estafetteBuildVersionAsTag, tagsSlice),
                                             LAMBDA o : o[1] = Lpush))

\* C18 witness: the build of repositories a,b with tag dev, container app
\* and build version 1.0 was issued with the --tag values a/app:1.0,
\* a/app:dev, b/app:1.0, b/app:dev.
C18_Witness ==
    /\ action = Lbuild
    /\ pc = "done"
    /\ BuildPositions # {}
    /\ \A k \in BuildPositions :
        TagFlagValues(trace[k].args) = <<Ra10, Radev, Rb10, Rbdev>>

(***************************************************************************)
(* Termination and the number of operations, checked under FairSpec.       *)
(***************************************************************************)
Terminated == pc \in {"done", "fatal"}

NumberOfTags == (Len(repositoriesSlice) - 1) + Len(repositoriesSlice) * Len(tagsSlice)
NumberOfPushes == Len(repositoriesSlice) * (1 + Len(tagsSlice))

OperationCounts ==
    /\ InCase(Lpush) /\ pc = "done" =>
        /\ Cardinality(PushPositions) = NumberOfPushes
        /\ Cardinality(TagPositions) = NumberOfTags
        /\ PullPositions = {}
    /\ InCase(Ltag) /\ pc = "done" =>
        /\ Cardinality(PullPositions) = 1
        /\ Cardinality(PushPositions) = NumberOfPushes - 1
        /\ Cardinality(TagPositions) = NumberOfTags

\* C19: every run eventually is in the done or the fatal state; a push run
\* that ended in done has issued |R| * (1 + |T|) pushes and
\* (|R| - 1) + |R| * |T| tag operations, a tag run that ended in done one
\* pull, |R| * (1 + |T|) - 1 pushes and (|R| - 1) + |R| * |T| tag operations.
C19_Termination == <>Terminated /\ []OperationCounts

\* C19 witness: a tag run over two repositories and one tag that ended in
\* done with one pull, three pushes and three tag operations.
C19_Witness ==
    /\ action = Ltag
    /\ pc = "done"
    /\ Len(repositoriesSlice) = 2
    /\ Len(tagsSlice) = 1
    /\ Cardinality(PullPositions) = 1
    /\ Cardinality(PushPositions) = 3
    /\ Cardinality(TagPositions) = 3

====
